---- MODULE Spec2Model ----
(***************************************************************************)
(* Model of the "Instant Commit" extension: change reconciliation          *)
(* (instantCommitFiles, _instantCommitGroups), commit-message synthesis    *)
(* (generateMessage) and the stage + commit sequence (instantCommit).      *)
(*                                                                         *)
(* Strings are sequences of one-character strings, so that path.dirname,   *)
(* path.relative, join and split are computed the way the code computes    *)
(* them.  A GitStatus is its number in the Status enum of the Git          *)
(* extension API that line 4 imports; undefined is -1.                     *)
(***************************************************************************)
EXTENDS Integers, Sequences, FiniteSets, TLC

\* ------------------------------------------------------------------ bounds
MaxPool == 2
MaxTargets == 2
MaxFiles == 3
MaxDepth == 3

\* ------------------------------------------------------- GitStatus (enum)
INDEX_MODIFIED == 0
INDEX_ADDED == 1
INDEX_DELETED == 2
INDEX_RENAMED == 3
INDEX_COPIED == 4
MODIFIED == 5
DELETED == 6
UNTRACKED == 7
undefined == -1

\* JavaScript truthiness of a (GitStatus | undefined): 0 and undefined are falsy.
TruthyStatus(s) == s # undefined /\ s # 0

\* JavaScript truthiness of a (string | undefined), held as an option record.
None == [def |-> FALSE, val |-> <<>>]
Some(s) == [def |-> TRUE, val |-> s]
TruthyString(o) == o.def /\ Len(o.val) > 0

\* ------------------------------------------------------------ sequences
\* Array.prototype.splice(i, 1) with a 1-based index.
Splice1(s, i) == SubSeq(s, 1, i - 1) \o SubSeq(s, i + 1, Len(s))

\* All sequences over S of length at most n.
SeqsUpTo(S, n) == UNION {[1..k -> S] : k \in 0..n}

Range(s) == {s[i] : i \in 1..Len(s)}

\* -------------------------------------------------------------- strings
NL == "\n"
SLASH == "/"

Digits == <<"0", "1", "2", "3", "4", "5", "6", "7", "8", "9">>

\* Number to decimal string, as in the template literal `${fileChanges.length}`.
RECURSIVE NumberToString(_)
NumberToString(n) ==
    IF n < 10 THEN <<Digits[n + 1]>>
    ELSE NumberToString(n \div 10) \o <<Digits[(n % 10) + 1]>>

\* Array.prototype.join('\n').
RECURSIVE joinLines(_)
joinLines(lines) ==
    IF lines = <<>> THEN <<>>
    ELSE IF Len(lines) = 1 THEN lines[1]
    ELSE lines[1] \o <<NL>> \o joinLines(Tail(lines))

\* No split at all: the whole text.
firstLine_Whole(msg) == msg

\* String.prototype.split('\n', 1)[0]: the text before the first newline.
firstLine(msg) ==
    LET nls == {i \in 1..Len(msg) : msg[i] = NL}
    IN IF nls = {} THEN msg
       ELSE SubSeq(msg, 1, (CHOOSE i \in nls : \A j \in nls : i <= j) - 1)

\* path.dirname (posix): scan from the end, skip trailing slashes, cut at the
\* last slash that precedes a non-slash character.
dirname(p) ==
    IF Len(p) = 0 THEN <<".">>
    ELSE
      LET hasRoot == p[1] = SLASH
          ends == {j \in 2..Len(p) :
                     /\ p[j] = SLASH
                     /\ \E k \in (j + 1)..Len(p) : p[k] # SLASH}
      IN IF ends = {} THEN (IF hasRoot THEN <<SLASH>> ELSE <<".">>)
         ELSE LET end == CHOOSE j \in ends : \A k \in ends : k <= j
              IN IF hasRoot /\ end = 2 THEN <<SLASH, SLASH>>
                 ELSE SubSeq(p, 1, end - 1)

IsPrefix(a, b) == Len(a) <= Len(b) /\ SubSeq(b, 1, Len(a)) = a

\* path.relative(rootPath, p).replace(/\\/g, '/') for a path at or under the root
\* (the only paths the selection UI of a repository hands over).
relative(rootPath, p) ==
    IF p = rootPath THEN <<>>
    ELSE IF IsPrefix(rootPath \o <<SLASH>>, p) THEN SubSeq(p, Len(rootPath) + 2, Len(p))
    ELSE p

\* ------------------------------------------------------ FileChange class
rootPath == <<"/", "r">>

\* new FileChange(change: GitChange, rootPath)
FileChangeOfChange(change, root) ==
    [path |-> change.uri,
     status |-> change.status,
     change |-> <<change>>,
     relativePath |-> relative(root, change.uri)]

\* new FileChange(path: string, rootPath, status?)
FileChangeOfPath(p, root, status) ==
    [path |-> p,
     status |-> status,
     change |-> <<>>,
     relativePath |-> relative(root, p)]

\* ------------------------------------------------------- generateMessage
DotSlash == <<".", "/">>

RECURSIVE findLongestPathPrefix(_, _)
findLongestPathPrefix(a, b) ==
    IF ~(Len(a) > 0 /\ Len(b) > 0) THEN None
    ELSE IF a = DotSlash \/ b = DotSlash THEN None
    ELSE IF a = b THEN Some(a)
    ELSE IF Len(a) > Len(b) THEN findLongestPathPrefix(dirname(a) \o <<SLASH>>, b)
    ELSE findLongestPathPrefix(a, dirname(b) \o <<SLASH>>)

\* The label switch with the index statuses only.
statusToString_IndexOnly(status) ==
    CASE status = INDEX_ADDED -> <<"A", "d", "d">>
      [] status = INDEX_DELETED -> <<"D", "e", "l", "e", "t", "e">>
      [] status = INDEX_RENAMED -> <<"R", "e", "n", "a", "m", "e">>
      [] status = INDEX_COPIED -> <<"C", "o", "p", "y">>
      [] OTHER -> <<"U", "p", "d", "a", "t", "e">>

statusToString(status) ==
    CASE status \in {INDEX_ADDED, UNTRACKED} -> <<"A", "d", "d">>
      [] status \in {INDEX_DELETED, DELETED} -> <<"D", "e", "l", "e", "t", "e">>
      [] status = INDEX_RENAMED -> <<"R", "e", "n", "a", "m", "e">>
      [] status = INDEX_COPIED -> <<"C", "o", "p", "y">>
      [] OTHER -> <<"U", "p", "d", "a", "t", "e">>

\* The accumulators before the loop (lines 69-71).
messageStart(fcs) ==
    [lines |-> <<>>,
     commonPath |-> IF Len(fcs) >= 1 THEN Some(fcs[1].relativePath) ELSE None,
     commonStatus |-> IF Len(fcs) >= 1 THEN fcs[1].status ELSE undefined]

\* A loop body that recomputes the running prefix from the current file once
\* it has become undefined.
messageStep_NoLatch(acc, fileChange) ==
    [lines |-> Append(acc.lines,
                      statusToString(fileChange.status) \o <<" ">> \o fileChange.relativePath),
     commonPath |->
        IF TruthyString(acc.commonPath) /\ acc.commonPath.val # fileChange.path
        THEN findLongestPathPrefix(acc.commonPath.val, fileChange.relativePath)
        ELSE Some(dirname(fileChange.relativePath) \o <<SLASH>>),
     commonStatus |->
        IF TruthyStatus(acc.commonStatus) /\ acc.commonStatus # fileChange.status
        THEN undefined
        ELSE acc.commonStatus]

\* A loop body whose common status starts over from the current file once it
\* has become undefined.
messageStep_StatusRecovers(acc, fileChange) ==
    [lines |-> Append(acc.lines,
                      statusToString(fileChange.status) \o <<" ">> \o fileChange.relativePath),
     commonPath |->
        IF TruthyString(acc.commonPath) /\ acc.commonPath.val # fileChange.path
        THEN findLongestPathPrefix(acc.commonPath.val, fileChange.relativePath)
        ELSE acc.commonPath,
     commonStatus |->
        IF TruthyStatus(acc.commonStatus)
        THEN (IF acc.commonStatus # fileChange.status THEN undefined ELSE acc.commonStatus)
        ELSE fileChange.status]

\* One iteration of the loop over fileChanges (lines 119-134).  The running
\* prefix is compared with the file's absolute path, as the code does.
messageStep(acc, fileChange) ==
    [lines |-> Append(acc.lines,
                      statusToString(fileChange.status) \o <<" ">> \o fileChange.relativePath),
     commonPath |->
        IF TruthyString(acc.commonPath) /\ acc.commonPath.val # fileChange.path
        THEN findLongestPathPrefix(acc.commonPath.val, fileChange.relativePath)
        ELSE acc.commonPath,
     commonStatus |->
        IF TruthyStatus(acc.commonStatus) /\ acc.commonStatus # fileChange.status
        THEN undefined
        ELSE acc.commonStatus]

RECURSIVE messageLoop(_, _, _)
messageLoop(acc, fcs, i) ==
    IF i > Len(fcs) THEN acc ELSE messageLoop(messageStep(acc, fcs[i]), fcs, i + 1)

\* The summary title (lines 138-143).
messageSummary(acc, n) ==
    statusToString(acc.commonStatus) \o <<" ">> \o NumberToString(n)
      \o <<" ", "f", "i", "l", "e", "s">>
      \o (IF TruthyString(acc.commonPath)
          THEN <<" ", "f", "r", "o", "m", " ">> \o acc.commonPath.val
          ELSE <<>>)

\* The summary prepended without the empty separator line.
messageFinish_NoBlank(acc, n) ==
    joinLines(IF n > 1 THEN <<messageSummary(acc, n)>> \o acc.lines ELSE acc.lines)

\* Lines 136-150: prepend the summary and an empty line, then join.
messageFinish(acc, n) ==
    joinLines(IF n > 1 THEN <<messageSummary(acc, n), <<>>>> \o acc.lines ELSE acc.lines)

generateMessage(fcs) ==
    messageFinish(messageLoop(messageStart(fcs), fcs, 1), Len(fcs))

\* ------------------------------------------------------------- popChange
\* Index of the first record of a pool whose uri.path is exactly `p`, 0 if none.
firstMatch(pool, p) ==
    LET hits == {i \in 1..Len(pool) : pool[i].uri = p}
    IN IF hits = {} THEN 0 ELSE CHOOSE i \in hits : \A j \in hits : i <= j

\* popChange that returns the match without splicing it out of its pool.
popChange_NoSplice(p, searchStagedFiles, staged, changed) ==
    LET i == IF searchStagedFiles THEN firstMatch(staged, p) ELSE 0
        j == firstMatch(changed, p)
    IN IF i > 0
       THEN [change |-> <<staged[i]>>, stagedFiles |-> staged, changedFiles |-> changed]
       ELSE IF j > 0
       THEN [change |-> <<changed[j]>>, stagedFiles |-> staged, changedFiles |-> changed]
       ELSE [change |-> <<>>, stagedFiles |-> staged, changedFiles |-> changed]

\* popChange that searches the changed pool before the staged pool.
popChange_ChangedFirst(p, searchStagedFiles, staged, changed) ==
    LET i == IF searchStagedFiles THEN firstMatch(staged, p) ELSE 0
        j == firstMatch(changed, p)
    IN IF j > 0
       THEN [change |-> <<changed[j]>>, stagedFiles |-> staged, changedFiles |-> Splice1(changed, j)]
       ELSE IF i > 0
       THEN [change |-> <<staged[i]>>, stagedFiles |-> Splice1(staged, i), changedFiles |-> changed]
       ELSE [change |-> <<>>, stagedFiles |-> staged, changedFiles |-> changed]

\* popChange(path, searchStagedFiles): the staged pool first, then the changed
\* pool; the match is spliced out of its pool.  `change` is <<>> for undefined.
popChange(p, searchStagedFiles, staged, changed) ==
    LET i == IF searchStagedFiles THEN firstMatch(staged, p) ELSE 0
        j == firstMatch(changed, p)
    IN IF i > 0
       THEN [change |-> <<staged[i]>>, stagedFiles |-> Splice1(staged, i), changedFiles |-> changed]
       ELSE IF j > 0
       THEN [change |-> <<changed[j]>>, stagedFiles |-> staged, changedFiles |-> Splice1(changed, j)]
       ELSE [change |-> <<>>, stagedFiles |-> staged, changedFiles |-> changed]

\* An iteration that pushes nothing when popChange finds no record.
resolvePath_SkipUnmatched(fullPath, loc) ==
    LET r == popChange(fullPath, TRUE, loc.stagedFiles, loc.changedFiles)
    IN [loc EXCEPT
          !.stagedFiles = r.stagedFiles,
          !.changedFiles = r.changedFiles,
          !.fileChanges = IF r.change # <<>>
                          THEN Append(@, FileChangeOfChange(r.change[1], rootPath))
                          ELSE @]

\* One iteration of the loop over resourceUris (lines 180-223).
resolvePath(fullPath, loc) ==
    LET r == popChange(fullPath, TRUE, loc.stagedFiles, loc.changedFiles)
    IN [loc EXCEPT
          !.stagedFiles = r.stagedFiles,
          !.changedFiles = r.changedFiles,
          !.fileChanges = Append(@,
              IF r.change # <<>>
              THEN FileChangeOfChange(r.change[1], rootPath)
              ELSE FileChangeOfPath(fullPath, rootPath, undefined))]

RECURSIVE mapFileChanges(_)
mapFileChanges(pool) ==
    IF pool = <<>> THEN <<>>
    ELSE <<FileChangeOfChange(Head(pool), rootPath)>> \o mapFileChanges(Tail(pool))

\* A group iteration that maps the pool without emptying it.
resolveGroup_NoDrain(id, loc) ==
    IF id = "index"
    THEN [loc EXCEPT !.fileChanges = @ \o mapFileChanges(loc.stagedFiles)]
    ELSE IF id = "workingTree"
    THEN [loc EXCEPT !.fileChanges = @ \o mapFileChanges(loc.changedFiles)]
    ELSE [loc EXCEPT !.unknownRessourceGroupIds = Append(@, id)]

\* One iteration of the loop over resourceGroups (lines 283-300).
resolveGroup(id, loc) ==
    IF id = "index"
    THEN [loc EXCEPT !.fileChanges = @ \o mapFileChanges(loc.stagedFiles),
                     !.stagedFiles = <<>>]
    ELSE IF id = "workingTree"
    THEN [loc EXCEPT !.fileChanges = @ \o mapFileChanges(loc.changedFiles),
                     !.changedFiles = <<>>]
    ELSE [loc EXCEPT !.unknownRessourceGroupIds = Append(@, id)]

\* fileChanges.map(path), without the filter on INDEX_DELETED.
RECURSIVE fileChangesPaths_All(_)
fileChangesPaths_All(fcs) ==
    IF fcs = <<>> THEN <<>> ELSE <<Head(fcs).path>> \o fileChangesPaths_All(Tail(fcs))

\* fileChanges.filter(status !== INDEX_DELETED).map(path) (lines 160-163).
RECURSIVE fileChangesPaths(_)
fileChangesPaths(fcs) ==
    IF fcs = <<>> THEN <<>>
    ELSE (IF Head(fcs).status # INDEX_DELETED THEN <<Head(fcs).path>> ELSE <<>>)
           \o fileChangesPaths(Tail(fcs))

\* ------------------------------------------- the repository collaborator
\* The status a working-tree change has once it is in the index.
stagedStatus(status) ==
    CASE status = MODIFIED -> INDEX_MODIFIED
      [] status = DELETED -> INDEX_DELETED
      [] status = UNTRACKED -> INDEX_ADDED
      [] OTHER -> status

\* repository.add(paths): every path with a working-tree change moves to the
\* index; a path without one, and an empty list, change nothing.
RECURSIVE repositoryAdd(_, _)
repositoryAdd(repo, paths) ==
    IF paths = <<>> THEN repo
    ELSE
      LET p == Head(paths)
          j == firstMatch(repo.changed, p)
          i == firstMatch(repo.staged, p)
          rec == [uri |-> p, status |-> stagedStatus(repo.changed[j].status)]
          repo1 ==
            IF j = 0 THEN repo
            ELSE [staged |-> Append(IF i > 0 THEN Splice1(repo.staged, i) ELSE repo.staged, rec),
                  changed |-> Splice1(repo.changed, j)]
      IN repositoryAdd(repo1, Tail(paths))

\* The objects a read of a pool returns: fresh records, each with its identity.
snapshot(pool, name) ==
    [i \in 1..Len(pool) |->
        [uri |-> pool[i].uri, status |-> pool[i].status, id |-> [pool |-> name, n |-> i]]]

\* ------------------------------------------------------------------ state
VARIABLES
    repo,      \* the repository: staged and changed pools, commits made
    inv,       \* the locals of each invocation of a command
    running,   \* the invocations this run triggers
    msg,       \* one run of generateMessage, iteration by iteration
    made,      \* one construction of a FileChange
    pre        \* one run of findLongestPathPrefix, iteration by iteration

vars == <<repo, inv, running, msg, made, pre>>

Invocations == {1, 2}

\* Files of the repository (relative to the root) and their absolute paths.
Files == << <<"a", "/", "x">>, <<"a", "/", "y">>, <<"z">> >>
absolute(rel) == rootPath \o <<SLASH>> \o rel
FilePaths == {absolute(Files[i]) : i \in 1..Len(Files)}
GroupIds == {"index", "workingTree", "merge"}

StagedStatuses == {INDEX_MODIFIED, INDEX_DELETED}
ChangedStatuses == {MODIFIED, DELETED}

RECURSIVE poolOf(_, _)
poolOf(f, i) ==
    IF i > Len(Files) THEN <<>>
    ELSE (IF i \in DOMAIN f THEN <<[uri |-> absolute(Files[i]), status |-> f[i]]>> ELSE <<>>)
           \o poolOf(f, i + 1)

\* The pools a repository can report: at most MaxPool records, one per file,
\* in path order.
Pools(statuses) ==
    {poolOf(f, 1) :
        f \in UNION {[S -> statuses] :
                        S \in {T \in SUBSET (1..Len(Files)) : Cardinality(T) <= MaxPool}}}

idle ==
    [pc |-> "Idle", kind |-> "none", targets |-> <<>>, idx |-> 0,
     stagedFiles |-> <<>>, changedFiles |-> <<>>, fileChanges |-> <<>>,
     unknownRessourceGroupIds |-> <<>>, commitMessage |-> <<>>,
     calls |-> <<>>, shown |-> <<>>, outcome |-> "none"]

preIdle == [pc |-> "idle", a0 |-> <<>>, b0 |-> <<>>, a |-> <<>>, b |-> <<>>, out |-> None]

madeIdle == [pc |-> "idle", change |-> <<>>, path |-> <<>>, status |-> undefined, out |-> <<>>]

msgIdle == [pc |-> "idle", files |-> <<>>, i |-> 0, acc |-> messageStart(<<>>), out |-> <<>>]

InitRepo ==
    \E st \in Pools(StagedStatuses), ch \in Pools(ChangedStatuses) :
        repo = [staged |-> st, changed |-> ch, commits |-> <<>>]

Init ==
    /\ InitRepo
    /\ inv = [p \in Invocations |-> idle]
    /\ running = {1}
    /\ msg = msgIdle
    /\ made = madeIdle
    /\ pre = preIdle

\* Two invocations triggered on the same repository: nothing in activate
\* (lines 324-336) or in the commands holds the second one back.
InitConcurrent ==
    /\ repo = [staged |-> <<[uri |-> absolute(Files[1]), status |-> INDEX_MODIFIED]>>,
               changed |-> <<[uri |-> absolute(Files[2]), status |-> MODIFIED]>>,
               commits |-> <<>>]
    /\ inv = [p \in Invocations |-> idle]
    /\ running = Invocations
    /\ msg = msgIdle
    /\ made = madeIdle
    /\ pre = preIdle

call(op, arg) == [op |-> op, arg |-> arg]
showErrorMessage(text, arg) == [level |-> "error", text |-> text, arg |-> arg]
showInformationMessage(text, arg) == [level |-> "info", text |-> text, arg |-> arg]

\* ---------------------------------------------------------------- actions
\* getGitRepository() finds no Git extension or no repository (lines 13-17,
\* 30-34): the command shows an error and returns.
NoRepository(p) ==
    /\ inv[p].pc = "Idle"
    /\ \E text \in {"Unable to load Git Extension.", "No Git repository found."} :
         inv' = [inv EXCEPT ![p].pc = "Aborted",
                            ![p].outcome = "NoRepository",
                            ![p].shown = Append(@, showErrorMessage(text, <<>>))]
    /\ UNCHANGED <<repo, running, msg, made, pre>>

\* _instantCommitStates / _instantCommitExplorer call instantCommitFiles, which
\* runs up to its first await (line 173).
InstantCommitFilesStart(p) ==
    /\ inv[p].pc = "Idle"
    /\ \E uris \in SeqsUpTo(FilePaths, MaxTargets) :
         inv' = [inv EXCEPT ![p].pc = "AwaitDiffIndex",
                            ![p].kind = "files",
                            ![p].targets = uris,
                            ![p].calls = Append(@, call("diffIndexWithHEAD", <<>>))]
    /\ UNCHANGED <<repo, running, msg, made, pre>>

\* _instantCommitGroups runs up to its first await (line 274).
InstantCommitGroupsStart(p) ==
    /\ inv[p].pc = "Idle"
    /\ \E ids \in SeqsUpTo(GroupIds, MaxTargets) :
         inv' = [inv EXCEPT ![p].pc = "AwaitDiffIndex",
                            ![p].kind = "groups",
                            ![p].targets = ids,
                            ![p].calls = Append(@, call("diffIndexWithHEAD", <<>>))]
    /\ UNCHANGED <<repo, running, msg, made, pre>>

\* diffIndexWithHEAD() resolves; diffWithHEAD() is called (lines 173-174, 274-275).
DiffIndexWithHEADReturn(p) ==
    /\ inv[p].pc = "AwaitDiffIndex"
    /\ inv' = [inv EXCEPT ![p].pc = "AwaitDiffHead",
                          ![p].stagedFiles = snapshot(repo.staged, "staged"),
                          ![p].calls = Append(@, call("diffWithHEAD", <<>>))]
    /\ UNCHANGED <<repo, running, msg, made, pre>>

\* diffWithHEAD() resolves; the resolution loop starts.
DiffWithHEADReturn(p) ==
    /\ inv[p].pc = "AwaitDiffHead"
    /\ inv' = [inv EXCEPT ![p].pc = "Resolving",
                          ![p].changedFiles = snapshot(repo.changed, "changed"),
                          ![p].idx = 1]
    /\ UNCHANGED <<repo, running, msg, made, pre>>

\* One iteration of `for (const resourceUri of resourceUris)`.
ResolvePath_SharedPools(p) ==
    /\ inv[p].pc = "Resolving"
    /\ inv[p].kind = "files"
    /\ inv[p].idx <= Len(inv[p].targets)
    /\ LET loc == [resolvePath(inv[p].targets[inv[p].idx], inv[p]) EXCEPT !.idx = @ + 1]
       IN inv' = [q \in Invocations |->
                    IF q = p THEN loc
                    ELSE [inv[q] EXCEPT !.stagedFiles = loc.stagedFiles,
                                        !.changedFiles = loc.changedFiles]]
    /\ UNCHANGED <<repo, running, msg, made, pre>>

ResolvePath(p) ==
    /\ inv[p].pc = "Resolving"
    /\ inv[p].kind = "files"
    /\ inv[p].idx <= Len(inv[p].targets)
    /\ inv' = [inv EXCEPT ![p] = [resolvePath(inv[p].targets[inv[p].idx], inv[p])
                                    EXCEPT !.idx = @ + 1]]
    /\ UNCHANGED <<repo, running, msg, made, pre>>

\* One iteration of `for (const resourceGroup of resourceGroups)`.
ResolveGroup(p) ==
    /\ inv[p].pc = "Resolving"
    /\ inv[p].kind = "groups"
    /\ inv[p].idx <= Len(inv[p].targets)
    /\ inv' = [inv EXCEPT ![p] = [resolveGroup(inv[p].targets[inv[p].idx], inv[p])
                                    EXCEPT !.idx = @ + 1]]
    /\ UNCHANGED <<repo, running, msg, made, pre>>

\* instantCommit up to `await repository.add(...)` (lines 155-165).
instantCommit(loc) ==
    [loc EXCEPT !.pc = "AwaitAdd",
                !.commitMessage = generateMessage(loc.fileChanges),
                !.calls = Append(@, call("add", fileChangesPaths(loc.fileChanges)))]

failed(loc, outcome, message) ==
    [loc EXCEPT !.pc = "Failed", !.outcome = outcome, !.shown = Append(@, message)]

\* instantCommitFiles without the staged-pool check of lines 231-235.
validateFiles_NoStagedCheck(loc) ==
    IF Len(loc.fileChanges) <= 0
    THEN failed(loc, "NoSelectionError",
                showErrorMessage("Please select one or more files to instant commit.", <<>>))
    ELSE instantCommit(loc)

\* instantCommitFiles without the empty-selection check of lines 225-229.
validateFiles_NoEmptyCheck(loc) ==
    IF Len(loc.stagedFiles) > 0
    THEN failed(loc, "UncleanStagedStateError",
                showErrorMessage("Please clean up your staged files before instant committing.", <<>>))
    ELSE instantCommit(loc)

\* instantCommitFiles after the loop (lines 225-237).
validateFiles(loc) ==
    IF Len(loc.fileChanges) <= 0
    THEN failed(loc, "NoSelectionError",
                showErrorMessage("Please select one or more files to instant commit.", <<>>))
    ELSE IF Len(loc.stagedFiles) > 0
    THEN failed(loc, "UncleanStagedStateError",
                showErrorMessage("Please clean up your staged files before instant committing.", <<>>))
    ELSE instantCommit(loc)

\* _instantCommitGroups after the loop (lines 302-321).
validateGroups(loc) ==
    IF Len(loc.fileChanges) <= 0
    THEN IF Len(loc.unknownRessourceGroupIds) > 0
         THEN failed(loc, "UnrecognizedGroupError",
                     showErrorMessage("Unknown resource group ids:", loc.unknownRessourceGroupIds))
         ELSE failed(loc, "NoSelectionError",
                     showErrorMessage("Nothing to instant commit.", <<>>))
    ELSE IF Len(loc.stagedFiles) > 0
    THEN failed(loc, "UncleanStagedStateError",
                showErrorMessage("Please clean up your staged files before instant committing.", <<>>))
    ELSE instantCommit(loc)

ValidateFiles(p) ==
    /\ inv[p].pc = "Resolving"
    /\ inv[p].kind = "files"
    /\ inv[p].idx > Len(inv[p].targets)
    /\ inv' = [inv EXCEPT ![p] = validateFiles(inv[p])]
    /\ UNCHANGED <<repo, running, msg, made, pre>>

ValidateGroups(p) ==
    /\ inv[p].pc = "Resolving"
    /\ inv[p].kind = "groups"
    /\ inv[p].idx > Len(inv[p].targets)
    /\ inv' = [inv EXCEPT ![p] = validateGroups(inv[p])]
    /\ UNCHANGED <<repo, running, msg, made, pre>>

\* An add continuation that reads the staged pool again and commits with the
\* message generated from it.
AddReturn_Reread(p) ==
    /\ inv[p].pc = "AwaitAdd"
    /\ LET paths == inv[p].calls[Len(inv[p].calls)].arg
           r == repositoryAdd([staged |-> repo.staged, changed |-> repo.changed], paths)
       IN /\ repo' = [repo EXCEPT !.staged = r.staged, !.changed = r.changed]
          /\ inv' = [inv EXCEPT
                ![p].pc = "AwaitCommit",
                ![p].calls = Append(@, call("commit",
                    generateMessage(mapFileChanges(snapshot(r.staged, "staged")))))]
    /\ UNCHANGED <<running, msg, made, pre>>

\* repository.add(paths) resolves: the paths are staged, and commit is called
\* (lines 165-166).
AddReturn(p) ==
    /\ inv[p].pc = "AwaitAdd"
    /\ LET paths == inv[p].calls[Len(inv[p].calls)].arg
           r == repositoryAdd([staged |-> repo.staged, changed |-> repo.changed], paths)
       IN repo' = [repo EXCEPT !.staged = r.staged, !.changed = r.changed]
    /\ inv' = [inv EXCEPT ![p].pc = "AwaitCommit",
                          ![p].calls = Append(@, call("commit", inv[p].commitMessage))]
    /\ UNCHANGED <<running, msg, made, pre>>

\* A rejected add that is swallowed: the commit is called all the same.
AddReject_ThenCommit(p) ==
    /\ inv[p].pc = "AwaitAdd"
    /\ inv' = [inv EXCEPT ![p].pc = "AwaitCommit",
                          ![p].outcome = "StagingError",
                          ![p].calls = Append(@, call("commit", inv[p].commitMessage))]
    /\ UNCHANGED <<repo, running, msg, made, pre>>

\* repository.add(paths) rejects: instantCommit throws; nobody awaits or
\* catches it (lines 237, 321).
AddReject(p) ==
    /\ inv[p].pc = "AwaitAdd"
    /\ inv' = [inv EXCEPT ![p].pc = "Failed", ![p].outcome = "StagingError"]
    /\ UNCHANGED <<repo, running, msg, made, pre>>

\* repository.commit(message) resolves: the index becomes a commit and the
\* information message is shown (lines 166-168).
CommitReturn(p) ==
    /\ inv[p].pc = "AwaitCommit"
    /\ LET message == inv[p].calls[Len(inv[p].calls)].arg
       IN /\ repo' = [repo EXCEPT
                        !.commits = Append(@, [message |-> message, staged |-> repo.staged]),
                        !.staged = <<>>]
          /\ inv' = [inv EXCEPT
                        ![p].pc = "Succeeded",
                        ![p].outcome = "Succeeded",
                        ![p].shown = Append(@, showInformationMessage("Instant committed:",
                                                    firstLine(inv[p].commitMessage)))]
    /\ UNCHANGED <<running, msg, made, pre>>

\* repository.commit(message) rejects.
CommitReject(p) ==
    /\ inv[p].pc = "AwaitCommit"
    /\ inv' = [inv EXCEPT ![p].pc = "Failed", ![p].outcome = "CommitError"]
    /\ UNCHANGED <<repo, running, msg, made, pre>>

Next ==
    \/ \E p \in running : NoRepository(p)
    \/ \E p \in running : InstantCommitFilesStart(p)
    \/ \E p \in running : InstantCommitGroupsStart(p)
    \/ \E p \in running : DiffIndexWithHEADReturn(p)
    \/ \E p \in running : DiffWithHEADReturn(p)
    \/ \E p \in running : ResolvePath(p)
    \/ \E p \in running : ResolveGroup(p)
    \/ \E p \in running : ValidateFiles(p)
    \/ \E p \in running : ValidateGroups(p)
    \/ \E p \in running : AddReturn(p)
    \/ \E p \in running : AddReject(p)
    \/ \E p \in running : CommitReturn(p)
    \/ \E p \in running : CommitReject(p)

Spec == Init /\ [][Next]_vars

SpecConcurrent == InitConcurrent /\ [][Next]_vars

\* ------------------------------------------- generateMessage, step by step
\* Relative paths and statuses of the file changes handed to generateMessage.
MessagePaths ==
    { <<"x">>, <<"a", "/", "x">>, <<"a", "/", "b", "/", "x">>, <<"a", "/", "b", "/", "y">>,
      <<"c", "/", "x">>, <<"a", "b", "/", "x">> }
MessageStatuses == {undefined, INDEX_MODIFIED, INDEX_ADDED}

MessageFileChanges ==
    {FileChangeOfPath(absolute(rel), rootPath, st) : rel \in MessagePaths, st \in MessageStatuses}

\* Every status a FileChange can carry, on one file.
AllStatuses ==
    {undefined, INDEX_MODIFIED, INDEX_ADDED, INDEX_DELETED, INDEX_RENAMED, INDEX_COPIED,
     MODIFIED, DELETED, UNTRACKED}
AnyStatusFileChanges ==
    {FileChangeOfPath(absolute(<<"x">>), rootPath, st) : st \in AllStatuses}

MessageInputs ==
    SeqsUpTo(MessageFileChanges, MaxFiles) \cup SeqsUpTo(AnyStatusFileChanges, MaxFiles - 1)

InitMessage ==
    /\ repo = [staged |-> <<>>, changed |-> <<>>, commits |-> <<>>]
    /\ inv = [p \in Invocations |-> idle]
    /\ running = {}
    /\ made = madeIdle
    /\ pre = preIdle
    /\ \E fcs \in MessageInputs :
          msg = [pc |-> "loop", files |-> fcs, i |-> 1, acc |-> messageStart(fcs), out |-> <<>>]

\* One iteration of `for (const fileChange of fileChanges)`.
MessageStep ==
    /\ msg.pc = "loop"
    /\ msg.i <= Len(msg.files)
    /\ msg' = [msg EXCEPT !.acc = messageStep(msg.acc, msg.files[msg.i]), !.i = @ + 1]
    /\ UNCHANGED <<repo, inv, running, made, pre>>

\* After the loop: summary, join, return.
MessageReturn ==
    /\ msg.pc = "loop"
    /\ msg.i > Len(msg.files)
    /\ msg' = [msg EXCEPT !.out = messageFinish(msg.acc, Len(msg.files)), !.pc = "done"]
    /\ UNCHANGED <<repo, inv, running, made, pre>>

NextMessage == MessageStep \/ MessageReturn

SpecMessage == InitMessage /\ [][NextMessage]_vars

\* ------------------------------------------- new FileChange(...), on its own
\* The change records a pool can hold: any file, any status, either pool.
ChangeRecords ==
    [uri : FilePaths,
     status : AllStatuses \ {undefined},
     id : [pool : {"staged", "changed"}, n : 1..MaxPool]]

InitFileChange ==
    /\ repo = [staged |-> <<>>, changed |-> <<>>, commits |-> <<>>]
    /\ inv = [p \in Invocations |-> idle]
    /\ running = {}
    /\ msg = msgIdle
    /\ pre = preIdle
    /\ \/ \E c \in ChangeRecords :
            made = [pc |-> "new", change |-> <<c>>, path |-> c.uri, status |-> c.status,
                    out |-> <<>>]
       \/ \E p \in FilePaths, st \in AllStatuses :
            made = [pc |-> "new", change |-> <<>>, path |-> p, status |-> st, out |-> <<>>]

\* new FileChange(change, repository.rootUri.path) (lines 217, 287, 292).
ConstructFromChange ==
    /\ made.pc = "new"
    /\ made.change # <<>>
    /\ made' = [made EXCEPT !.pc = "done",
                            !.out = <<FileChangeOfChange(made.change[1], rootPath)>>]
    /\ UNCHANGED <<repo, inv, running, msg, pre>>

\* new FileChange(fullPath, repository.rootUri.path, status?) (line 221).
ConstructFromPath ==
    /\ made.pc = "new"
    /\ made.change = <<>>
    /\ made' = [made EXCEPT !.pc = "done",
                            !.out = <<FileChangeOfPath(made.path, rootPath, made.status)>>]
    /\ UNCHANGED <<repo, inv, running, msg, pre>>

NextFileChange == ConstructFromChange \/ ConstructFromPath

SpecFileChange == InitFileChange /\ [][NextFileChange]_vars

\* ------------------------------------- findLongestPathPrefix, on its own
\* Names of files and directories, and the repository-relative paths of at
\* most MaxDepth names; the empty path is the root itself.
Segments == {<<"a">>, <<"b">>, <<"c", "d">>}

RECURSIVE PathsOfDepth(_)
PathsOfDepth(d) ==
    IF d = 1 THEN Segments
    ELSE {s \o <<SLASH>> \o r : s \in Segments, r \in PathsOfDepth(d - 1)}

RelativePaths == {<<>>} \cup UNION {PathsOfDepth(d) : d \in 1..MaxDepth}

\* What commonPath can hold at the call (line 122): the first relative path,
\* or a directory an earlier call returned.
CommonPaths ==
    RelativePaths \cup {p \o <<SLASH>> : p \in UNION {PathsOfDepth(d) : d \in 1..(MaxDepth - 1)}}

InitPrefix ==
    /\ repo = [staged |-> <<>>, changed |-> <<>>, commits |-> <<>>]
    /\ inv = [p \in Invocations |-> idle]
    /\ running = {}
    /\ msg = msgIdle
    /\ made = madeIdle
    /\ \E a \in CommonPaths, b \in RelativePaths :
          pre = [pc |-> "loop", a0 |-> a, b0 |-> b, a |-> a, b |-> b, out |-> None]

\* The loop is left: its condition fails, or one of the two returns is taken
\* (lines 75-85, 97).
PrefixReturn ==
    /\ pre.pc = "loop"
    /\ \/ /\ ~(Len(pre.a) > 0 /\ Len(pre.b) > 0)
          /\ pre' = [pre EXCEPT !.pc = "done", !.out = None]
       \/ /\ Len(pre.a) > 0 /\ Len(pre.b) > 0
          /\ pre.a = DotSlash \/ pre.b = DotSlash
          /\ pre' = [pre EXCEPT !.pc = "done", !.out = None]
       \/ /\ Len(pre.a) > 0 /\ Len(pre.b) > 0
          /\ ~(pre.a = DotSlash \/ pre.b = DotSlash)
          /\ pre.a = pre.b
          /\ pre' = [pre EXCEPT !.pc = "done", !.out = Some(pre.a)]
    /\ UNCHANGED <<repo, inv, running, msg, made>>

\* An iteration that cuts the shorter candidate.
PrefixTruncate_Shorter ==
    /\ pre.pc = "loop"
    /\ Len(pre.a) > 0 /\ Len(pre.b) > 0
    /\ ~(pre.a = DotSlash \/ pre.b = DotSlash)
    /\ pre.a # pre.b
    /\ IF Len(pre.a) > Len(pre.b)
       THEN pre' = [pre EXCEPT !.b = dirname(pre.b) \o <<SLASH>>]
       ELSE pre' = [pre EXCEPT !.a = dirname(pre.a) \o <<SLASH>>]
    /\ UNCHANGED <<repo, inv, running, msg, made>>

\* An iteration that returns nothing: the longer candidate, or b when they are
\* as long, becomes its directory followed by "/" (lines 87-94).
PrefixTruncate ==
    /\ pre.pc = "loop"
    /\ Len(pre.a) > 0 /\ Len(pre.b) > 0
    /\ ~(pre.a = DotSlash \/ pre.b = DotSlash)
    /\ pre.a # pre.b
    /\ IF Len(pre.a) > Len(pre.b)
       THEN pre' = [pre EXCEPT !.a = dirname(pre.a) \o <<SLASH>>]
       ELSE pre' = [pre EXCEPT !.b = dirname(pre.b) \o <<SLASH>>]
    /\ UNCHANGED <<repo, inv, running, msg, made>>

NextPrefix == PrefixTruncate \/ PrefixReturn

\* The loop is sequential code on one thread: an iteration that can run, runs.
SpecPrefix == InitPrefix /\ [][NextPrefix]_vars /\ WF_vars(NextPrefix)

\* ================================================================= claims
ops(p) == [i \in 1..Len(inv[p].calls) |-> inv[p].calls[i].op]
issued(p, op) == \E i \in 1..Len(inv[p].calls) : inv[p].calls[i].op = op

\* The invocation is past resolution and validation.
validated(p) == inv[p].pc \in {"AwaitAdd", "AwaitCommit", "Succeeded", "Failed"}

pathsOf(fcs) == {fcs[i].path : i \in 1..Len(fcs)}

\* C1 as stated: whenever the staged pool still holds a record after all
\* targets are resolved, the invocation fails with UncleanStagedStateError and
\* issues neither the stage call nor the commit call.
C1_LeftoverAlwaysUnclean ==
    \A p \in running :
        (validated(p) /\ Len(inv[p].stagedFiles) > 0) =>
            /\ inv[p].pc = "Failed"
            /\ inv[p].outcome = "UncleanStagedStateError"
            /\ ~issued(p, "add") /\ ~issued(p, "commit")

\* C1 amended: whenever at least one FileChange was resolved and the staged
\* pool still holds a record after resolution, the invocation fails with
\* UncleanStagedStateError; with a leftover staged record, whatever the error,
\* neither the stage call nor the commit call is issued.
C1_LeftoverUncleanWhenSelected ==
    \A p \in running :
        (validated(p) /\ Len(inv[p].stagedFiles) > 0) =>
            /\ inv[p].pc = "Failed"
            /\ Len(inv[p].fileChanges) > 0 => inv[p].outcome = "UncleanStagedStateError"
            /\ ~issued(p, "add") /\ ~issued(p, "commit")

C1_Witness ==
    \E p \in running :
        /\ inv[p].pc = "Failed"
        /\ inv[p].outcome = "UncleanStagedStateError"
        /\ Len(inv[p].fileChanges) = 2
        /\ Len(inv[p].stagedFiles) > 0

\* C2: with a single invocation, when the commit call is issued every path in
\* the repository's index is the path of a resolved FileChange.
C2_IndexWithinResolved ==
    \A p \in running :
        inv[p].pc = "AwaitCommit" =>
            \A i \in 1..Len(repo.staged) : repo.staged[i].uri \in pathsOf(inv[p].fileChanges)

C2_Witness ==
    \E p \in running :
        /\ inv[p].pc = "AwaitCommit"
        /\ Len(repo.staged) = 2
        /\ \E i \in 1..Len(inv[p].fileChanges) :
              /\ inv[p].fileChanges[i].change # <<>>
              /\ inv[p].fileChanges[i].change[1].id.pool = "staged"
        /\ \E i \in 1..Len(inv[p].fileChanges) :
              /\ inv[p].fileChanges[i].change # <<>>
              /\ inv[p].fileChanges[i].change[1].id.pool = "changed"

\* C3: the calls of an invocation are a prefix of staged read, unstaged read,
\* stage, commit (so each happens at most once, in that order); no commit call
\* follows a failed stage call; after a failed commit the matched paths passed
\* to the stage call are still staged; and no step that leaves or finds the
\* invocation failed changes the repository or issues another call.
CallOrder == <<"diffIndexWithHEAD", "diffWithHEAD", "add", "commit">>

C3_CallsInOrder ==
    \A p \in running :
        /\ Len(inv[p].calls) <= Len(CallOrder)
        /\ ops(p) = SubSeq(CallOrder, 1, Len(inv[p].calls))
        /\ inv[p].outcome = "StagingError" => ~issued(p, "commit")
        /\ inv[p].outcome = "CommitError" =>
              \A i \in 1..Len(inv[p].fileChanges) :
                  LET fc == inv[p].fileChanges[i]
                  IN (fc.change # <<>> /\ fc.status # INDEX_DELETED) =>
                        \E j \in 1..Len(repo.staged) : repo.staged[j].uri = fc.path

C3_FailureLeavesRepository ==
    \A p \in running :
        /\ inv'[p].pc = "Failed" => repo' = repo
        /\ IsPrefix(inv[p].calls, inv'[p].calls)
        /\ inv[p].pc \in {"Failed", "Succeeded", "Aborted"} => inv'[p] = inv[p]

C3_FixedOrderNoRetry == [](C3_CallsInOrder) /\ [][C3_FailureLeavesRepository]_vars

C3_Witness ==
    \E p \in running :
        /\ inv[p].pc = "Failed"
        /\ inv[p].outcome = "CommitError"
        /\ ops(p) = CallOrder
        /\ Len(repo.staged) > 0

\* ---------------------------------------------------------- resolveByPaths
\* The invocation holds its two snapshots and the repository is as it was when
\* they were taken (one invocation; the stage call has not returned).
resolving(p) ==
    /\ inv[p].pc \in {"Resolving", "AwaitAdd", "Failed"}
    /\ ~issued(p, "commit")

resolved(p) == resolving(p) /\ inv[p].pc # "Resolving"

staged0 == snapshot(repo.staged, "staged")
changed0 == snapshot(repo.changed, "changed")

occurrences(pool, rec) == Cardinality({i \in 1..Len(pool) : pool[i] = rec})
claims(fcs, rec) == Cardinality({i \in 1..Len(fcs) : fcs[i].change = <<rec>>})

\* C4: resolveByPaths yields one FileChange per input path, in input order,
\* with that path as its absolute path; every record of the two snapshots is
\* either still in its pool or the source of exactly one FileChange, never
\* both and never the source of two.
C4_OnePerPathDrainedOnce ==
    \A p \in running :
        (resolving(p) /\ inv[p].kind = "files") =>
            LET fcs == inv[p].fileChanges
            IN /\ Len(fcs) = (IF inv[p].pc = "Resolving" THEN inv[p].idx - 1
                              ELSE Len(inv[p].targets))
               /\ \A i \in 1..Len(fcs) : fcs[i].path = inv[p].targets[i]
               /\ \A i \in 1..Len(fcs) :
                     fcs[i].change # <<>> =>
                        fcs[i].change[1] \in Range(staged0) \cup Range(changed0)
               /\ \A rec \in Range(staged0) :
                     occurrences(inv[p].stagedFiles, rec) + claims(fcs, rec) = 1
               /\ \A rec \in Range(changed0) :
                     occurrences(inv[p].changedFiles, rec) + claims(fcs, rec) = 1

C4_Witness ==
    \E p \in running :
        /\ resolved(p) /\ inv[p].kind = "files"
        /\ Len(inv[p].fileChanges) = 2
        /\ inv[p].targets[1] = inv[p].targets[2]
        /\ inv[p].fileChanges[1].change # <<>>
        /\ Len(inv[p].changedFiles) < Len(changed0)

real(fc) == fc.status # undefined /\ fc.change # <<>>
unknown(fc) == fc.status = undefined /\ fc.change = <<>>
has(pool, p) == \E i \in 1..Len(pool) : pool[i].uri = p

\* The same absolute path was given twice and both occurrences are resolved.
twice(p) ==
    /\ resolved(p) /\ inv[p].kind = "files"
    /\ Len(inv[p].targets) = 2
    /\ inv[p].targets[1] = inv[p].targets[2]

\* C5 as stated: for every pair of pools in which the path has a record,
\* resolving it twice yields a real FileChange for the first occurrence and an
\* Unknown fallback without source record for the second.
C5_SecondAlwaysUnknown ==
    \A p \in running :
        (twice(p) /\ (has(staged0, inv[p].targets[1]) \/ has(changed0, inv[p].targets[1]))) =>
            /\ real(inv[p].fileChanges[1])
            /\ unknown(inv[p].fileChanges[2])

\* C5 amended: when the path has a record in exactly one pool, the first
\* occurrence yields that record and the second the Unknown fallback; when it
\* has a record in both pools, the first occurrence yields the staged record
\* and the second the unstaged record, and neither is Unknown.
C5_SecondUnknownIfOnePool ==
    \A p \in running :
        twice(p) =>
            LET x == inv[p].targets[1]
                fcs == inv[p].fileChanges
            IN /\ (has(staged0, x) /\ ~has(changed0, x)) =>
                     real(fcs[1]) /\ fcs[1].change[1].id.pool = "staged" /\ unknown(fcs[2])
               /\ (~has(staged0, x) /\ has(changed0, x)) =>
                     real(fcs[1]) /\ fcs[1].change[1].id.pool = "changed" /\ unknown(fcs[2])
               /\ (has(staged0, x) /\ has(changed0, x)) =>
                     /\ real(fcs[1]) /\ fcs[1].change[1].id.pool = "staged"
                     /\ real(fcs[2]) /\ fcs[2].change[1].id.pool = "changed"

C5_Witness ==
    \E p \in running :
        /\ twice(p)
        /\ has(staged0, inv[p].targets[1]) /\ ~has(changed0, inv[p].targets[1])
        /\ unknown(inv[p].fileChanges[2])

\* ------------------------------------------------------- the commit message
theCall(p, op) == inv[p].calls[CHOOSE i \in 1..Len(inv[p].calls) : inv[p].calls[i].op = op]

\* The staged pool as a read after the stage call would return it, as
\* FileChanges.
restaged == mapFileChanges(staged0)

kth(S, k) == CHOOSE i \in S : Cardinality({j \in S : j < i}) = k - 1

\* C7: the stage call is issued at most once, and its paths are the absolute
\* paths of the resolved FileChanges whose status is not INDEX_DELETED, in
\* resolution order; Unknown-status FileChanges are among them.
C7_StagePathsAreNonDeleted ==
    \A p \in running :
        /\ Cardinality({i \in 1..Len(inv[p].calls) : inv[p].calls[i].op = "add"}) <= 1
        /\ issued(p, "add") =>
              LET fcs == inv[p].fileChanges
                  keep == {i \in 1..Len(fcs) : fcs[i].status # INDEX_DELETED}
                  paths == theCall(p, "add").arg
              IN /\ Len(paths) = Cardinality(keep)
                 /\ \A k \in 1..Len(paths) : paths[k] = fcs[kth(keep, k)].path
                 /\ \A i \in 1..Len(fcs) :
                       fcs[i].status = undefined => fcs[i].path \in Range(paths)

C7_Witness ==
    \E p \in running :
        /\ issued(p, "add")
        /\ Len(inv[p].fileChanges) = 2
        /\ inv[p].fileChanges[1].status = INDEX_DELETED
        /\ inv[p].fileChanges[2].status = undefined
        /\ theCall(p, "add").arg = <<inv[p].fileChanges[2].path>>

\* C8: when every resolved FileChange is an already-staged deletion, no stage
\* call is issued.
C8_NoStageCallWhenNothingToStage ==
    \A p \in running :
        ( /\ inv[p].pc \in {"AwaitAdd", "AwaitCommit", "Succeeded"}
          /\ \A i \in 1..Len(inv[p].fileChanges) :
                inv[p].fileChanges[i].status = INDEX_DELETED )
        => ~issued(p, "add")

\* ----------------------------------------------------------- empty selection
\* C9 as stated: an invocation that resolves no FileChange fails with
\* NoSelectionError and issues neither the stage call nor the commit call.
C9_EmptyIsNoSelection ==
    \A p \in running :
        (validated(p) /\ Len(inv[p].fileChanges) = 0) =>
            /\ inv[p].pc = "Failed"
            /\ inv[p].outcome = "NoSelectionError"
            /\ ~issued(p, "add") /\ ~issued(p, "commit")

unrecognized(p) ==
    /\ inv[p].kind = "groups"
    /\ \E i \in 1..Len(inv[p].targets) : inv[p].targets[i] \notin {"index", "workingTree"}

\* C9 amended: an invocation that resolves no FileChange fails with
\* NoSelectionError, unless a group identifier other than index and workingTree
\* was requested, in which case it fails with UnrecognizedGroupError; in both
\* cases neither the stage call nor the commit call is issued.
C9_EmptyIsNoSelectionOrUnrecognized ==
    \A p \in running :
        (validated(p) /\ Len(inv[p].fileChanges) = 0) =>
            /\ inv[p].pc = "Failed"
            /\ inv[p].outcome = (IF unrecognized(p) THEN "UnrecognizedGroupError"
                                 ELSE "NoSelectionError")
            /\ ~issued(p, "add") /\ ~issued(p, "commit")

C9_Witness ==
    \E p \in running :
        /\ inv[p].pc = "Failed"
        /\ inv[p].outcome = "NoSelectionError"
        /\ inv[p].kind = "groups"
        /\ inv[p].targets = <<"index", "workingTree">>
        /\ Len(inv[p].fileChanges) = 0

\* ------------------------------------------------------- the summary title
FromWord == <<" ", "f", "r", "o", "m", " ">>

fromAt(line) ==
    {i \in 1..(Len(line) - Len(FromWord) + 1) : SubSeq(line, i, i + Len(FromWord) - 1) = FromWord}
hasFrom(line) == fromAt(line) # {}
\* What follows the first " from " of a line.
afterFrom(line) ==
    LET i == CHOOSE k \in fromAt(line) : \A j \in fromAt(line) : k <= j
    IN SubSeq(line, i + Len(FromWord), Len(line))

\* The directories a relative path lies under, each with its trailing "/".
directories(rel) == {SubSeq(rel, 1, i) : i \in {k \in 1..Len(rel) : rel[k] = SLASH}}
commonDirectories(fcs) ==
    {d \in directories(fcs[1].relativePath) :
        \A i \in 1..Len(fcs) : d \in directories(fcs[i].relativePath)}
deepest(ds) == CHOOSE d \in ds : \A e \in ds : Len(e) <= Len(d)

distinctPaths(fcs) ==
    \A i, j \in 1..Len(fcs) : i # j => fcs[i].relativePath # fcs[j].relativePath

\* C10: for two or more file changes with pairwise distinct relative paths, the
\* title ends in " from P" exactly when all files lie under a common directory
\* other than the root, and P is the deepest such directory with its trailing
\* "/"; once the running prefix is undefined it stays undefined, and the title
\* then has no "from" clause.
C10_TitleAtReturn ==
    (msg.pc = "done" /\ Len(msg.files) >= 2 /\ distinctPaths(msg.files)) =>
        LET title == firstLine(msg.out)
            common == commonDirectories(msg.files)
        IN /\ hasFrom(title) <=> common # {}
           /\ hasFrom(title) => afterFrom(title) = deepest(common)
           /\ ~TruthyString(msg.acc.commonPath) => ~hasFrom(title)

C10_PrefixLatch ==
    (msg.pc = "loop" /\ ~TruthyString(msg.acc.commonPath)) => ~TruthyString(msg'.acc.commonPath)

C10_FromCommonDirectory == [](C10_TitleAtReturn) /\ [][C10_PrefixLatch]_vars

C10_Witness ==
    /\ msg.pc = "done"
    /\ Len(msg.files) = 3
    /\ distinctPaths(msg.files)
    /\ msg.files[1].relativePath = <<"a", "/", "b", "/", "x">>
    /\ hasFrom(firstLine(msg.out))
    /\ afterFrom(firstLine(msg.out)) = <<"a", "/">>

\* ---------------------------------------------------- the action of a status
UpdateLabel == <<"U", "p", "d", "a", "t", "e">>

\* The action label table, status by status.
actionLabel(status) ==
    IF status = INDEX_ADDED THEN <<"A", "d", "d">>
    ELSE IF status = UNTRACKED THEN <<"A", "d", "d">>
    ELSE IF status = INDEX_DELETED THEN <<"D", "e", "l", "e", "t", "e">>
    ELSE IF status = DELETED THEN <<"D", "e", "l", "e", "t", "e">>
    ELSE IF status = INDEX_RENAMED THEN <<"R", "e", "n", "a", "m", "e">>
    ELSE IF status = INDEX_COPIED THEN <<"C", "o", "p", "y">>
    ELSE UpdateLabel

\* The text of a line before its first space.
firstWord(line) ==
    LET sp == {i \in 1..Len(line) : line[i] = " "}
    IN IF sp = {} THEN line
       ELSE SubSeq(line, 1, (CHOOSE i \in sp : \A j \in sp : i <= j) - 1)

\* The first n files all have the status of the first file.
sameStatus(fcs, n) == \A j \in 1..n : fcs[j].status = fcs[1].status

\* C11: for two or more file changes the action word of the title is the label
\* of the first file's status when every file has that status, and "Update" as
\* soon as one differs; after a difference the common action is "Update"
\* whatever statuses follow.
C11_CommonAction ==
    (msg.pc \in {"loop", "done"} /\ Len(msg.files) >= 1) =>
        LET n == msg.i - 1
            expected == IF sameStatus(msg.files, n) THEN actionLabel(msg.files[1].status)
                        ELSE UpdateLabel
        IN /\ actionLabel(msg.acc.commonStatus) = expected
           /\ (msg.pc = "done" /\ Len(msg.files) >= 2) =>
                 firstWord(firstLine(msg.out)) = expected

C11_Witness ==
    /\ msg.pc = "done"
    /\ Len(msg.files) = 3
    /\ msg.files[1].status = INDEX_ADDED
    /\ msg.files[2].status = INDEX_MODIFIED
    /\ msg.files[3].status = INDEX_ADDED
    /\ firstWord(firstLine(msg.out)) = UpdateLabel

\* ------------------------------------------------------ the lines of a message
\* The lines of a text: the pieces between its newline characters.
RECURSIVE linesOf(_)
linesOf(text) ==
    LET nls == {i \in 1..Len(text) : text[i] = NL}
    IN IF nls = {} THEN <<text>>
       ELSE LET i == CHOOSE k \in nls : \A j \in nls : k <= j
            IN <<SubSeq(text, 1, i - 1)>> \o linesOf(SubSeq(text, i + 1, Len(text)))

FilesWord == <<" ", "f", "i", "l", "e", "s">>

\* C12: for N >= 1 file changes with distinct relative paths the message has N
\* lines when N = 1 and N + 2 lines when N > 1; the two extra lines are the
\* title ("<Action> <N> files...") as line 1 and an empty line as line 2.
C12_LineCount ==
    (msg.pc = "done" /\ Len(msg.files) >= 1 /\ distinctPaths(msg.files)) =>
        LET n == Len(msg.files)
            lines == linesOf(msg.out)
        IN /\ Len(lines) = (IF n = 1 THEN 1 ELSE n + 2)
           /\ n > 1 =>
                 /\ IsPrefix(firstWord(lines[1]) \o <<" ">> \o NumberToString(n) \o FilesWord,
                             lines[1])
                 /\ lines[2] = <<>>
                 /\ \A i \in 3..Len(lines) : lines[i] # <<>>

C12_Witness ==
    /\ msg.pc = "done"
    /\ Len(msg.files) = 3
    /\ distinctPaths(msg.files)
    /\ Len(linesOf(msg.out)) = 5

\* The lines of the message after the title and the empty line, if any.
bodyOf(text, n) ==
    LET lines == linesOf(text)
    IN IF n > 1 THEN SubSeq(lines, 3, Len(lines)) ELSE lines

\* C13: the body holds one line per file change, in input order, each
\* "<Action> <relativePath>" with the action of that file's own status by the
\* label table; for a single file change the whole message is that line.
C13_BodyLines ==
    (msg.pc = "done" /\ Len(msg.files) >= 1) =>
        LET n == Len(msg.files)
            body == bodyOf(msg.out, n)
            line(i) == actionLabel(msg.files[i].status) \o <<" ">> \o msg.files[i].relativePath
        IN /\ Len(body) = n
           /\ \A i \in 1..n : body[i] = line(i)
           /\ n = 1 => msg.out = line(1)

C13_Witness ==
    /\ msg.pc = "done"
    /\ Len(msg.files) = 2
    /\ msg.files[1].status = DELETED
    /\ msg.files[2].status = UNTRACKED
    /\ firstWord(firstLine(msg.out)) = UpdateLabel
    /\ firstWord(bodyOf(msg.out, 2)[1]) = <<"D", "e", "l", "e", "t", "e">>
    /\ firstWord(bodyOf(msg.out, 2)[2]) = <<"A", "d", "d">>

\* ----------------------------------------------------------- resolveByGroup
\* Invocation p resolves one group in this step.
groupStep(p) ==
    /\ inv[p].pc = "Resolving" /\ inv[p].kind = "groups"
    /\ inv'[p].pc = "Resolving" /\ inv'[p].idx = inv[p].idx + 1

\* `after` is `before` followed by one FileChange per record of `pool`, in
\* pool order, each with that record as its source.
appended(before, after, pool) ==
    /\ Len(after) = Len(before) + Len(pool)
    /\ SubSeq(after, 1, Len(before)) = before
    /\ \A k \in 1..Len(pool) :
          /\ after[Len(before) + k].change = <<pool[k]>>
          /\ after[Len(before) + k].path = pool[k].uri

\* C14: resolving the group index empties the staged pool, returns one
\* FileChange per staged record in pool order and leaves the unstaged pool
\* unchanged; resolving workingTree does the same with the pools exchanged.
C14_GroupStep ==
    \A p \in running :
        groupStep(p) =>
            LET id == inv[p].targets[inv[p].idx]
            IN /\ id = "index" =>
                    /\ inv'[p].stagedFiles = <<>>
                    /\ appended(inv[p].fileChanges, inv'[p].fileChanges, inv[p].stagedFiles)
                    /\ inv'[p].changedFiles = inv[p].changedFiles
               /\ id = "workingTree" =>
                    /\ inv'[p].changedFiles = <<>>
                    /\ appended(inv[p].fileChanges, inv'[p].fileChanges, inv[p].changedFiles)
                    /\ inv'[p].stagedFiles = inv[p].stagedFiles

C14_GroupDrainsItsPool == [][C14_GroupStep]_vars

C14_Witness ==
    \E p \in running :
        /\ inv[p].pc = "Resolving" /\ inv[p].kind = "groups"
        /\ inv[p].targets = <<"index", "workingTree">>
        /\ inv[p].idx = 2
        /\ Len(inv[p].fileChanges) = 2
        /\ inv[p].stagedFiles = <<>>
        /\ Len(inv[p].changedFiles) = 2

\* C15: whenever a group identifier other than index and workingTree is
\* requested, it contributes no FileChange and the invocation reports
\* UnrecognizedGroupError listing every such identifier, also when other
\* groups resolved to FileChanges.
C15_UnknownGroupAlwaysReported ==
    \A p \in running :
        (validated(p) /\ unrecognized(p)) =>
            /\ inv[p].outcome = "UnrecognizedGroupError"
            /\ \E i \in 1..Len(inv[p].shown) :
                  /\ inv[p].shown[i].level = "error"
                  /\ inv[p].shown[i].text = "Unknown resource group ids:"
                  /\ \A k \in 1..Len(inv[p].targets) :
                        inv[p].targets[k] \notin {"index", "workingTree"} =>
                            inv[p].targets[k] \in Range(inv[p].shown[i].arg)

\* ------------------------------------------------------- failures and success
\* C16: whenever the stage call or the commit call fails, the invocation ends
\* Failed with that StagingError or CommitError and the failure is shown to
\* the user as a message.
C16_CallFailureIsShown ==
    \A p \in running :
        inv[p].outcome \in {"StagingError", "CommitError"} =>
            /\ inv[p].pc = "Failed"
            /\ \E i \in 1..Len(inv[p].shown) : inv[p].shown[i].level = "error"

infos(p) == {i \in 1..Len(inv[p].shown) : inv[p].shown[i].level = "info"}

\* C17: success is reported at most once, only after the commit call returned
\* successfully, and the reported summary is the first line of the message
\* passed to the commit call: the title for more than one file, the single
\* per-file line otherwise.
C17_SuccessAfterCommit ==
    \A p \in running :
        /\ Cardinality(infos(p)) <= 1
        /\ inv[p].pc = "Succeeded" <=> infos(p) # {}
        /\ \A i \in infos(p) :
              LET message == theCall(p, "commit").arg
                  n == Len(inv[p].fileChanges)
              IN /\ issued(p, "commit")
                 /\ \E c \in 1..Len(repo.commits) : repo.commits[c].message = message
                 /\ i = Len(inv[p].shown)
                 /\ inv[p].shown[i].arg = linesOf(message)[1]
                 /\ n = 1 => inv[p].shown[i].arg = message
                 /\ n > 1 => IsPrefix(inv[p].shown[i].arg \o <<NL, NL>>, message)

C17_Witness ==
    \E p \in running :
        /\ inv[p].pc = "Succeeded"
        /\ Len(inv[p].fileChanges) = 2
        /\ infos(p) # {}
        /\ hasFrom(inv[p].shown[Len(inv[p].shown)].arg)

\* ---------------------------------------------------------------- popChange
\* Invocation p resolves one path in this step.
pathStep(p) ==
    /\ inv[p].pc = "Resolving" /\ inv[p].kind = "files"
    /\ inv'[p].pc = "Resolving" /\ inv'[p].idx = inv[p].idx + 1

\* C19: when the requested path has a record in the staged pool, that record
\* is claimed and removed from the staged pool, one record only, and the
\* unstaged pool is left as it is, also when it holds a record for the path;
\* the unstaged pool loses a record only when the staged pool has none for
\* the path.
C19_PathStep ==
    \A p \in running :
        pathStep(p) =>
            LET x == inv[p].targets[inv[p].idx]
                fc == inv'[p].fileChanges[Len(inv'[p].fileChanges)]
            IN /\ has(inv[p].stagedFiles, x) =>
                    /\ fc.change # <<>>
                    /\ fc.change[1].id.pool = "staged"
                    /\ fc.change[1].uri = x
                    /\ occurrences(inv[p].stagedFiles, fc.change[1]) = 1
                    /\ Len(inv'[p].stagedFiles) = Len(inv[p].stagedFiles) - 1
                    /\ ~has(inv'[p].stagedFiles, x)
                    /\ Range(inv'[p].stagedFiles) = Range(inv[p].stagedFiles) \ {fc.change[1]}
                    /\ inv'[p].changedFiles = inv[p].changedFiles
               /\ ~has(inv[p].stagedFiles, x) => inv'[p].stagedFiles = inv[p].stagedFiles
               /\ inv'[p].changedFiles # inv[p].changedFiles => ~has(inv[p].stagedFiles, x)

C19_StagedRecordFirst == [][C19_PathStep]_vars

C19_Witness ==
    \E p \in running :
        /\ inv[p].pc = "Resolving" /\ inv[p].kind = "files"
        /\ inv[p].idx = 2
        /\ inv[p].fileChanges[1].change # <<>>
        /\ inv[p].fileChanges[1].change[1].id.pool = "staged"
        /\ has(inv[p].changedFiles, inv[p].targets[1])
        /\ Len(inv[p].stagedFiles) = 1

\* ------------------------------------------------------ status normalization
\* The mapping table of the claim: the status a record of the given origin
\* should carry once claimed.
normalized(pool, status) ==
    IF pool = "staged"
    THEN CASE status = MODIFIED -> INDEX_MODIFIED
           [] status = UNTRACKED -> INDEX_ADDED
           [] status = DELETED -> INDEX_DELETED
           [] OTHER -> status
    ELSE CASE status = INDEX_MODIFIED -> MODIFIED
           [] status = INDEX_ADDED -> UNTRACKED
           [] status = INDEX_DELETED -> DELETED
           [] status = INDEX_RENAMED -> MODIFIED
           [] status = INDEX_COPIED -> MODIFIED
           [] OTHER -> status

\* C18: a record claimed from the staged pool with native status Modified,
\* Untracked or Deleted yields a FileChange with the staged equivalent; a
\* record claimed from the unstaged pool with a staged-flavoured status yields
\* the working-tree equivalent (Renamed and Copied become Modified); every
\* other combination passes through unchanged.
C18_StatusNormalized ==
    (made.pc = "done" /\ made.change # <<>>) =>
        made.out[1].status = normalized(made.change[1].id.pool, made.change[1].status)

\* ------------------------------------------------------ concurrent invocations
drains(p) ==
    \/ Len(inv'[p].stagedFiles) < Len(inv[p].stagedFiles)
    \/ Len(inv'[p].changedFiles) < Len(inv[p].changedFiles)

C20_DrainStep ==
    \A p \in running : \A q \in running \ {p} :
        drains(p) =>
            /\ inv'[q].stagedFiles = inv[q].stagedFiles
            /\ inv'[q].changedFiles = inv[q].changedFiles

\* C20: invocations are not serialized and share no pool: draining a pool in
\* one invocation never changes the pool contents the other invocation sees.
C20_PoolsNotShared == [][C20_DrainStep]_vars

\* Both invocations claimed the same unstaged record, so both read their pools
\* before the stage call of either took effect; both passed validation and
\* both issued their own stage call and commit call.
C20_Witness ==
    \A p \in Invocations :
        /\ p \in running
        /\ issued(p, "add")
        /\ issued(p, "commit")
        /\ \E i \in 1..Len(inv[p].fileChanges) :
              /\ inv[p].fileChanges[i].change # <<>>
              /\ inv[p].fileChanges[i].change[1].id.pool = "changed"
              /\ inv[p].fileChanges[i].change[1].uri = absolute(Files[2])

\* ---------------------------------------------------------- pool conservation
\* The source records of a list of FileChanges, in order.
RECURSIVE sources(_)
sources(fcs) ==
    IF fcs = <<>> THEN <<>> ELSE Head(fcs).change \o sources(Tail(fcs))

\* `sub` is `pool` with some records left out, the others in their order.
RECURSIVE subsequence(_, _)
subsequence(sub, pool) ==
    IF sub = <<>> THEN TRUE
    ELSE IF pool = <<>> THEN FALSE
    ELSE IF Head(sub) = Head(pool) THEN subsequence(Tail(sub), Tail(pool))
    ELSE subsequence(sub, Tail(pool))

\* The three places a record can be are, together, the two snapshots.
C21_Conserved ==
    \A p \in running :
        resolving(p) =>
            LET now == sources(inv[p].fileChanges) \o inv[p].stagedFiles \o inv[p].changedFiles
                then == staged0 \o changed0
            IN /\ \A rec \in Range(now) \cup Range(then) :
                     occurrences(now, rec) = occurrences(then, rec)
               /\ \A i \in 1..Len(inv[p].stagedFiles) :
                     inv[p].stagedFiles[i].id.pool = "staged"
               /\ \A i \in 1..Len(inv[p].changedFiles) :
                     inv[p].changedFiles[i].id.pool = "changed"

\* A step of the resolution pass only takes records out of the pools.
C21_ShrinkStep ==
    \A p \in running :
        (inv[p].pc = "Resolving") =>
            /\ subsequence(inv'[p].stagedFiles, inv[p].stagedFiles)
            /\ subsequence(inv'[p].changedFiles, inv[p].changedFiles)

\* C21: in every state of a resolution pass, by paths or by groups, the source
\* records of the FileChanges resolved so far together with the records left
\* in the staged pool and in the unstaged pool are, as a multiset, the records
\* of the two initial snapshots; the pools only ever shrink and no record
\* moves from one pool to the other.
C21_PoolConservation == []C21_Conserved /\ [][C21_ShrinkStep]_vars

C21_Witness ==
    \E p \in running :
        /\ inv[p].pc = "Resolving" /\ inv[p].kind = "groups"
        /\ inv[p].idx = 2
        /\ Len(staged0) = 2 /\ Len(changed0) = 1
        /\ inv[p].changedFiles = <<>>
        /\ sources(inv[p].fileChanges) = changed0
        /\ inv[p].stagedFiles = staged0

\* ------------------------------------------------------- unmatched selections
\* The resolution of a path that has no record in either pool.
C22_UnmatchedStep ==
    \A p \in running :
        (pathStep(p) /\ ~has(inv[p].stagedFiles, inv[p].targets[inv[p].idx])
                     /\ ~has(inv[p].changedFiles, inv[p].targets[inv[p].idx])) =>
            /\ inv'[p].stagedFiles = inv[p].stagedFiles
            /\ inv'[p].changedFiles = inv[p].changedFiles
            /\ inv'[p].shown = inv[p].shown
            /\ Len(inv'[p].fileChanges) = Len(inv[p].fileChanges) + 1
            /\ SubSeq(inv'[p].fileChanges, 1, Len(inv[p].fileChanges)) = inv[p].fileChanges
            /\ LET fc == inv'[p].fileChanges[Len(inv'[p].fileChanges)]
               IN unknown(fc) /\ fc.path = inv[p].targets[inv[p].idx]

\* What becomes of an unmatched selection afterwards.
C22_UnmatchedCounts ==
    \A p \in running :
        LET fcs == inv[p].fileChanges
            lost == {i \in 1..Len(fcs) : unknown(fcs[i])}
        IN (inv[p].kind = "files" /\ lost # {}) =>
              /\ inv[p].outcome # "NoSelectionError"
              /\ (validated(p) /\ inv[p].outcome # "UncleanStagedStateError") =>
                    /\ issued(p, "add")
                    /\ \A i \in lost :
                          /\ \E k \in 1..Len(theCall(p, "add").arg) :
                                theCall(p, "add").arg[k] = fcs[i].path
                          /\ bodyOf(inv[p].commitMessage, Len(fcs))[i]
                                = UpdateLabel \o <<" ">> \o fcs[i].relativePath

\* C22: a requested path that matches no record in either pool raises no
\* error, leaves both pools unchanged and yields a FileChange with absent
\* status and no source record; the unmatched selection does not abort the
\* invocation: it counts towards a non-empty selection, its path is passed to
\* the stage call and it appears in the message as "Update <relativePath>".
C22_UnmatchedIsUnknown == []C22_UnmatchedCounts /\ [][C22_UnmatchedStep]_vars

C22_Witness ==
    \E p \in running :
        /\ inv[p].pc = "Succeeded" /\ inv[p].kind = "files"
        /\ repo.commits # <<>>
        /\ Len(inv[p].fileChanges) = 1
        /\ unknown(inv[p].fileChanges[1])
        /\ theCall(p, "add").arg = <<absolute(Files[3])>>
        /\ inv[p].commitMessage = UpdateLabel \o <<" ">> \o Files[3]

\* ------------------------------------------------- the common-prefix loop
\* The number of names in a candidate; the root marker has none.
depth(c) ==
    IF c = DotSlash THEN 0
    ELSE Cardinality({i \in 1..Len(c) : c[i] # SLASH /\ (i = 1 \/ c[i - 1] = SLASH)})

truncates == pre.pc = "loop" /\ pre'.pc = "loop" /\ pre' # pre

parent(c) == dirname(c) \o <<SLASH>>

C23_ShortenStep ==
    truncates =>
        \/ pre'.a = parent(pre.a) /\ Len(pre'.a) < Len(pre.a) /\ pre'.b = pre.b
        \/ pre'.b = parent(pre.b) /\ Len(pre'.b) < Len(pre.b) /\ pre'.a = pre.a

\* C23 as stated: every iteration of the truncation loop that does not return
\* strictly shortens one of the two candidates to its parent directory, and
\* the loop returns after finitely many steps.
C23_EveryStepShortens == [][C23_ShortenStep]_vars /\ <>(pre.pc = "done")

C23_ParentStep ==
    truncates =>
        /\ \/ /\ pre'.a = parent(pre.a) /\ pre'.b = pre.b
              /\ Len(pre'.a) < Len(pre.a) \/ pre'.a = DotSlash
           \/ /\ pre'.b = parent(pre.b) /\ pre'.a = pre.a
              /\ Len(pre'.b) < Len(pre.b) \/ pre'.b = DotSlash
        /\ depth(pre'.a) + depth(pre'.b) < depth(pre.a) + depth(pre.b)

C23_Returned ==
    (pre.pc = "done") =>
        /\ pre.out = findLongestPathPrefix(pre.a0, pre.b0)
        /\ \/ pre.a = pre.b /\ pre.out = Some(pre.a)
           \/ (pre.a = DotSlash \/ pre.b = DotSlash) /\ pre.out = None
           \/ (pre.a = <<>> \/ pre.b = <<>>) /\ pre.out = None

\* C23, amended: every iteration that does not return replaces one candidate
\* by its parent directory followed by "/", which has fewer names, and is
\* either shorter or the root marker "./" (a one-letter name makes "./" as
\* long or longer); the loop returns after finitely many steps, at equality,
\* at the root marker or at an empty candidate.
C23_PrefixTerminates ==
    /\ [][C23_ParentStep]_vars
    /\ []C23_Returned
    /\ <>(pre.pc = "done")

C23_Witness ==
    /\ pre.pc = "done"
    /\ pre.a0 = <<"a", "/", "c", "d">>
    /\ pre.b0 = <<"b", "/", "c", "d">>
    /\ pre.a = <<"a", "/">>
    /\ pre.b = DotSlash
    /\ pre.out = None

====
